---- MODULE Spec2Model ----
(***************************************************************************)
(* State-machine model of the TripleTen CLI core: the HTTP client          *)
(* (client.py: retrying transport, fetch_leaderboard and its response      *)
(* normalisation, the profile probes) and the leaderboard command          *)
(* (cli.py: single-shot display and the change-aware watch loop), the      *)
(* fingerprint of a snapshot (cli.py: compute_data_hash), and the cookie   *)
(* management of the client (client.py: login, cookies.json).              *)
(*                                                                         *)
(* A JSON object (a Python dict) is a sequence of <<key, value>> pairs in  *)
(* insertion order; a JSON array is a sequence.  Optional values are       *)
(* sequences of length 0 (None) or 1.                                      *)
(***************************************************************************)
EXTENDS Integers, Sequences, FiniteSets, TLC

VARIABLES
    pc,             \* position of the running program (command or client script)
    watch,          \* cli.py: --watch flag
    period,         \* cli.py: period after the defaults were applied (CLI format)
    clientAvailable,\* cli.py: client is not None
    previous_hash,  \* cli.py: nonlocal previous_hash (None or a digest)
    displayed,      \* data last passed to display_leaderboard_data (None or data)
    displayCalls,   \* number of display_leaderboard_data calls
    fetchCalls,     \* number of fetch_leaderboard_data calls
    handledCalls,   \* number of fetch_leaderboard_data calls that returned
    sleepCalls,     \* number of time.sleep calls
    lastData,       \* what the last fetch_leaderboard_data call returned (None or data)
    lastFailed,     \* the last fetch_leaderboard_data call took its except branch
    interrupted,    \* a KeyboardInterrupt has been delivered
    call,           \* client method in progress, "none" when idle
    arg,            \* period argument of the last fetch_leaderboard call
    request,        \* the session.request of the current client call (None or one)
    sessionCalls,   \* session.request calls made by the current client call
    attempts,       \* HTTP attempts the adapter made for that session.request
    retriesLeft,    \* Retry.total still available to that session.request
    retryableSeen,  \* responses with a status of the forcelist it received so far
    errorsSeen,     \* transport-level errors it met so far
    lastStatus,     \* status of the last response received (0: none yet)
    transport,      \* how _make_request ended
    result,         \* how the client method ended
    payloads,       \* cli.py: the documents handed to compute_data_hash, in turn
    digests,        \* cli.py: the digests compute_data_hash returned for them
    cookie_string,  \* client.py: the string this run logs in with
    cookies_file,   \* config_dir / "cookies.json" on disk
    cookies,        \* client.py: self.session.cookies of the current client
    client,         \* "none", "ready", or "crashed" when __init__ raised
    configLoaded,   \* cli.py: get_config() returned (no ConfigError)
    interval,       \* cli.py: interval after the defaults were applied
    storeCall       \* the last constructor or login call: its argument, the jar it
                    \* found, the exception it raised, how its save went

vars == <<pc, watch, period, clientAvailable, previous_hash, displayed, displayCalls,
          fetchCalls, handledCalls, sleepCalls, lastData, lastFailed, interrupted,
          call, arg, request, sessionCalls, attempts, retriesLeft, retryableSeen,
          errorsSeen, lastStatus, transport, result,
          payloads, digests, cookie_string, cookies_file, cookies, client, storeCall,
          configLoaded, interval>>

coreVars == <<pc, watch, period, clientAvailable, previous_hash, displayed, displayCalls,
              fetchCalls, handledCalls, sleepCalls, lastData, lastFailed, interrupted,
              call, arg, request, sessionCalls, attempts, retriesLeft, retryableSeen,
              errorsSeen, lastStatus, transport, result, configLoaded, interval>>

configVars == <<configLoaded, interval>>

hashVars == <<payloads, digests>>

storeVars == <<cookie_string, cookies_file, cookies, client, storeCall>>

cliVars == <<watch, period, clientAvailable, previous_hash, displayed, displayCalls,
             fetchCalls, handledCalls, sleepCalls, lastData, lastFailed, interrupted>>

(***************************************************************************)
(* Bounds of the model.                                                    *)
(***************************************************************************)
MaxFetches == 3     \* fetch_leaderboard_data calls of one command run
MaxMembers == 2     \* entries of an upstream leaderboard / top_members list
MaxFragments == 2   \* ";"-separated fragments of a login cookie string

(***************************************************************************)
(* Python values.                                                          *)
(***************************************************************************)
None == <<>>
Some(v) == <<v>>

\* key in d
Has(d, k) == \E i \in 1..Len(d) : d[i][1] = k

\* d[key]
Item(d, k) == d[CHOOSE i \in 1..Len(d) : d[i][1] = k][2]

\* d.get(key, default)
Get(d, k, default) == IF Has(d, k) THEN Item(d, k) ELSE default

\* bool(data) of a dict: an empty dict is falsy
Truthy(d) == Len(d) > 0

\* all sequences over S of length at most n
SeqsUpTo(S, n) == UNION {[1..k -> S] : k \in 0..n}

(***************************************************************************)
(* The state outside a specification's scope keeps its initial value.      *)
(***************************************************************************)
\* cookies.json does not exist
AbsentFile == [kind |-> "absent", text |-> <<>>]

\* no constructor or login call was made yet
NoStoreCall == [op |-> "none", arg |-> <<>>, held |-> <<>>, exc |-> "", save |-> "none"]

\* the interval the command uses when neither the option nor the configuration
\* gives one
DefaultInterval == 30

\* the configuration loaded and gave the default interval
ConfigIdle ==
    /\ configLoaded = TRUE
    /\ interval = DefaultInterval

\* nothing was handed to compute_data_hash
HashIdle ==
    /\ payloads = <<>>
    /\ digests = <<>>

\* no client object exists and cookies.json was never written
StoreIdle ==
    /\ cookie_string = <<>>
    /\ cookies_file = AbsentFile
    /\ cookies = <<>>
    /\ client = "none"
    /\ storeCall = NoStoreCall

(***************************************************************************)
(* client.py: the retry policy of _create_session.                         *)
(***************************************************************************)
RetryTotal == 3
status_forcelist == {429, 500, 502, 503, 504}
allowed_methods == {"HEAD", "GET", "OPTIONS"}
\* raise_on_status left at the library's default
RaiseOnExhausted == TRUE

raise_on_status == FALSE

BASE_URL == "https://hub.tripleten.com"
LeaderboardEndpoint == "/internal_api//gamification/leaderboard"
ProfileEndpoint == "/api/user/profile"
RefererPrefix == "https://hub.tripleten.com/leaderboard/?period="

\* urllib3 Retry.is_retry: a response of this status to this method is retried
IsRetryable(method, status) ==
    method \in allowed_methods /\ status \in status_forcelist

(***************************************************************************)
(* The upstream service: statuses and bodies it may answer with.           *)
(***************************************************************************)
Statuses == {200, 401, 404, 429, 500, 503}

\* an entry of an already-shaped document (shape A)
ShapedEntry(rank, xp) ==
    << <<"rank", rank>>, <<"user", "Alice">>, <<"user_id", "alice123">>,
       <<"xp", xp>>, <<"completed", 10>>, <<"streak", 5>> >>

ShapedEntries == {ShapedEntry(r, x) : r \in {1, 2}, x \in {1000, 1001}}

\* a member record of a raw ranking document (shape B): every field is optional
MemberFields ==
    << <<"name", "Bob">>, <<"public_uid", "bob456">>, <<"total_points", 2200>>,
       <<"rank", 7>>, <<"completed", 4>>, <<"streak", 9>> >>

Member(fields) == SelectSeq(MemberFields, LAMBDA p : p[1] \in fields)

Members ==
    {Member(D) : D \in SUBSET {"name", "public_uid", "total_points"}}
    \cup {MemberFields}

ShapeA(entries) == << <<"leaderboard", entries>> >>
ShapeB(members) == << <<"top_members", members>> >>
ShapeAB(entries, members) == << <<"leaderboard", entries>>, <<"top_members", members>> >>
\* a shape A document that carries a second top-level key besides its entries
StampedDoc(entries, stamp) == << <<"leaderboard", entries>>, <<"generated_at", stamp>> >>
EmptyDoc == <<>>
OtherDoc == << <<"status", "ok">> >>
ProfileDoc == << <<"user", "test_user">> >>
\* an error document with a message field
MessageDoc == << <<"message", "Custom error message">> >>

\* a body: whether response.json() parses it, what it parses to (a JSON object
\* with its value, or null), and its text when it is not JSON
JsonBody(doc) == [json |-> TRUE, type |-> "object", value |-> doc, plain |-> ""]
TextBody == [json |-> FALSE, type |-> "text", value |-> <<>>, plain |-> "Invalid JSON response"]
NullBody == [json |-> TRUE, type |-> "null", value |-> <<>>, plain |-> ""]
EmptyBody == [json |-> FALSE, type |-> "empty", value |-> <<>>, plain |-> ""]

\* every 200 body of the leaderboard endpoint the model considers
LeaderboardBodies ==
    {JsonBody(ShapeA(es)) : es \in SeqsUpTo(ShapedEntries, MaxMembers)}
    \cup {JsonBody(ShapeB(ms)) : ms \in SeqsUpTo(Members, MaxMembers)}
    \cup {JsonBody(ShapeAB(<<e>>, <<m>>)) :
            e \in {ShapedEntry(2, 1000)}, m \in {Member({"name"}), MemberFields}}
    \cup {JsonBody(EmptyDoc), JsonBody(OtherDoc), TextBody, EmptyBody, NullBody}

\* the few of them the command's runs are explored with
WatchBodies ==
    { JsonBody(ShapeA(<<ShapedEntry(1, 1000)>>)),
      JsonBody(ShapeA(<<ShapedEntry(1, 1001)>>)),
      JsonBody(ShapeB(<<Member({"name"})>>)),
      JsonBody(StampedDoc(<<ShapedEntry(1, 1000)>>, "t1")),
      JsonBody(StampedDoc(<<ShapedEntry(1, 1000)>>, "t2")),
      JsonBody(EmptyDoc), JsonBody(OtherDoc), TextBody }

ProfileBodies == {JsonBody(ProfileDoc), TextBody}

\* bodies of the responses whose status is not 200
ErrorBodies == {TextBody, EmptyBody, NullBody, JsonBody(MessageDoc), JsonBody(OtherDoc)}

(***************************************************************************)
(* client.py: requests, and how a call ends.                               *)
(***************************************************************************)
NoOutcome == [kind |-> "none", exc |-> "", cause |-> "", status |-> 0, body |-> TextBody]
Response(status, body) ==
    [kind |-> "response", exc |-> "", cause |-> "", status |-> status, body |-> body]
Raised(exc) == [kind |-> "raise", exc |-> exc, cause |-> "", status |-> 0, body |-> TextBody]

\* `raise exc(f"...{e}")` inside `except cause as e`: the new exception carries
\* the text of the one it was raised for, and that exception as its context
RaisedFrom(exc, cause) ==
    [kind |-> "raise", exc |-> exc, cause |-> cause, status |-> 0, body |-> TextBody]

\* what an HTTPError message says after "API error": the status (with its
\* reason) and the detail appended to it, taken from the message field or from
\* the raw text
NoDetail == [from |-> "none", text |-> ""]
NoError == [status |-> 0, detail |-> NoDetail]

NoResult == [kind |-> "none", exc |-> "", data |-> None, flag |-> FALSE, error |-> NoError]
Return(doc) ==
    [kind |-> "return", exc |-> "", data |-> Some(doc), flag |-> FALSE, error |-> NoError]
ReturnNone == [kind |-> "return", exc |-> "", data |-> None, flag |-> FALSE, error |-> NoError]
ReturnBool(b) == [kind |-> "return", exc |-> "", data |-> None, flag |-> b, error |-> NoError]
Raise(exc) == [kind |-> "raise", exc |-> exc, data |-> None, flag |-> FALSE, error |-> NoError]
RaiseHTTPError(status, detail) ==
    [kind |-> "raise", exc |-> "HTTPError", data |-> None, flag |-> FALSE,
     error |-> [status |-> status, detail |-> detail]]

\* the mapping with the values of month and week exchanged
PeriodMappingSwapped(p) ==
    CASE p = "all" -> "all_time"
      [] p = "month" -> "7_days"
      [] p = "week" -> "30_days"
      [] OTHER -> p

\* fetch_leaderboard: period_mapping.get(period, period)
period_mapping(p) ==
    CASE p = "all" -> "all_time"
      [] p = "month" -> "30_days"
      [] p = "week" -> "7_days"
      [] OTHER -> p

\* no validation: every string passes
AnyPeriodValid ==
    {"all_time", "30_days", "7_days", "invalid_period", "", "ALL", "year"}

valid_periods == {"all_time", "30_days", "7_days"}

\* what fetch_leaderboard passes to _make_request
LeaderboardRequest(api_period) ==
    [method |-> "GET",
     url |-> <<BASE_URL, LeaderboardEndpoint>>,
     params |-> << <<"period", api_period>> >>,
     headers |-> << <<"Referer", <<RefererPrefix, api_period>> >> >>]

\* what is_authenticated and get_user_info pass to _make_request
ProfileRequest ==
    [method |-> "GET",
     url |-> <<BASE_URL, ProfileEndpoint>>,
     params |-> <<>>,
     headers |-> <<>>]

\* _make_request without its check of the 401 status
MakeRequestNoAuthCheck(sess) ==
    IF sess.kind = "raise" THEN RaisedFrom("ConnectionError", sess.exc) ELSE sess

\* _make_request without its except clause: the exception of session.request
\* leaves it as it is
MakeRequestUnwrapped(sess) ==
    IF sess.kind = "raise" THEN sess
    ELSE IF sess.status = 401 THEN Raised("AuthenticationError")
    ELSE sess

\* _make_request, after session.request ended with `sess`
MakeRequest(sess) ==
    IF sess.kind = "raise" THEN RaisedFrom("ConnectionError", sess.exc)
    ELSE IF sess.status = 401 THEN Raised("AuthenticationError")
    ELSE sess

\* the entry with the member's own rank, when it has one
NormalizeMemberKeepRank(rank, member) ==
    << <<"rank", Get(member, "rank", rank)>>,
       <<"user", Get(member, "name", "Unknown")>>,
       <<"user_id", Get(member, "public_uid", "")>>,
       <<"xp", Get(member, "total_points", 0)>>,
       <<"completed", 0>>,
       <<"streak", 0>> >>

\* one synthesized entry of fetch_leaderboard's top_members loop
NormalizeMember(rank, member) ==
    << <<"rank", rank>>,
       <<"user", Get(member, "name", "Unknown")>>,
       <<"user_id", Get(member, "public_uid", "")>>,
       <<"xp", Get(member, "total_points", 0)>>,
       <<"completed", 0>>,
       <<"streak", 0>> >>

\* the transformation that also renumbers the ranks of a shaped document
TransformResponseRerank(data) ==
    IF Has(data, "top_members")
    THEN << <<"leaderboard",
              [i \in 1..Len(Item(data, "top_members")) |->
                  NormalizeMember(i, Item(data, "top_members")[i])]>> >>
    ELSE IF Has(data, "leaderboard")
    THEN << <<"leaderboard",
              [i \in 1..Len(Item(data, "leaderboard")) |->
                  [j \in 1..Len(Item(data, "leaderboard")[i]) |->
                      IF Item(data, "leaderboard")[i][j][1] = "rank"
                      THEN <<"rank", i>>
                      ELSE Item(data, "leaderboard")[i][j]]]>> >>
    ELSE data

\* fetch_leaderboard's transformation of the parsed 200 body
TransformResponse(data) ==
    IF Has(data, "top_members")
    THEN << <<"leaderboard",
              [i \in 1..Len(Item(data, "top_members")) |->
                  NormalizeMember(i, Item(data, "top_members")[i])]>> >>
    ELSE data

\* fetch_leaderboard on a status other than 200 (client.py 245-254): the
\* HTTPError and its message, or the TypeError of `"message" in None`
ApiErrorResult(status, body) ==
    IF body.type = "empty" THEN RaiseHTTPError(status, NoDetail)
    ELSE IF ~body.json THEN RaiseHTTPError(status, [from |-> "raw", text |-> body.plain])
    ELSE IF body.type = "null" THEN Raise("TypeError")
    ELSE IF Has(body.value, "message")
         THEN RaiseHTTPError(status, [from |-> "message", text |-> Item(body.value, "message")])
         ELSE RaiseHTTPError(status, NoDetail)

\* fetch_leaderboard, after _make_request ended with `t`
FetchLeaderboardResult(t) ==
    IF t.kind = "raise" THEN Raise(t.exc)
    ELSE IF t.status # 200 THEN ApiErrorResult(t.status, t.body)
    ELSE IF ~t.body.json THEN Raise("ValueError")
    ELSE IF t.body.type = "null" THEN Raise("TypeError")
    ELSE Return(TransformResponse(t.body.value))

\* is_authenticated, after _make_request ended with `t`
IsAuthenticatedResult(t) ==
    IF t.kind = "raise"
    THEN IF t.exc = "SystemExit" THEN ReturnBool(FALSE) ELSE Raise(t.exc)
    ELSE ReturnBool(t.status # 401)

\* get_user_info, after _make_request ended with `t`
GetUserInfoResult(t) ==
    IF t.kind = "raise"
    THEN IF t.exc = "SystemExit" THEN ReturnNone ELSE Raise(t.exc)
    ELSE IF t.status = 200
         THEN IF t.body.json THEN Return(t.body.value) ELSE Raise("JSONDecodeError")
         ELSE ReturnNone

ClientResult(method, t) ==
    CASE method = "fetch_leaderboard" -> FetchLeaderboardResult(t)
      [] method = "is_authenticated" -> IsAuthenticatedResult(t)
      [] method = "get_user_info" -> GetUserInfoResult(t)

(***************************************************************************)
(* client.py: the transport.  A session.request makes one HTTP attempt and, *)
(* under the Retry policy mounted by _create_session, further ones.        *)
(***************************************************************************)
InFlight == request # None /\ result.kind = "none"

\* a client method calls _make_request, which calls session.request
Issue(method, req) ==
    /\ call' = method
    /\ request' = Some(req)
    /\ sessionCalls' = 1
    /\ attempts' = 1
    /\ retriesLeft' = RetryTotal
    /\ retryableSeen' = 0
    /\ errorsSeen' = 0
    /\ lastStatus' = 0
    /\ transport' = NoOutcome
    /\ result' = NoResult

\* the adapter received a response of the forcelist and retries
RetryOnStatus ==
    /\ pc \in {"api", "initial_fetch", "loop_fetch"}
    /\ InFlight
    /\ retriesLeft > 0
    /\ \E s \in Statuses :
        /\ IsRetryable(request[1].method, s)
        /\ lastStatus' = s
    /\ retryableSeen' = retryableSeen + 1
    /\ attempts' = attempts + 1
    /\ retriesLeft' = retriesLeft - 1
    /\ UNCHANGED <<pc, cliVars, call, arg, request, sessionCalls, errorsSeen,
                   transport, result>>
    /\ UNCHANGED <<hashVars, storeVars, configVars>>

\* the adapter met a transport-level error (DNS, reset, timeout) and retries
RetryOnError ==
    /\ pc \in {"api", "initial_fetch", "loop_fetch"}
    /\ InFlight
    /\ retriesLeft > 0
    /\ errorsSeen' = errorsSeen + 1
    /\ attempts' = attempts + 1
    /\ retriesLeft' = retriesLeft - 1
    /\ UNCHANGED <<pc, cliVars, call, arg, request, sessionCalls, retryableSeen,
                   lastStatus, transport, result>>
    /\ UNCHANGED <<hashVars, storeVars, configVars>>

\* the ways session.request can end now; `bodies` are the 200 bodies considered
SessionOutcomes(bodies) ==
    {Response(s, b) : s \in {x \in Statuses : ~IsRetryable(request[1].method, x) /\ x # 200},
                      b \in ErrorBodies}
    \cup {Response(200, b) : b \in bodies}
    \cup (IF retriesLeft = 0
          THEN (IF raise_on_status
                THEN {Raised("RetryError")}
                ELSE {Response(s, b) :
                        s \in {x \in Statuses : IsRetryable(request[1].method, x)},
                        b \in ErrorBodies})
               \cup {Raised("RequestException")}
          ELSE {})

\* a client method that opens cookies.json for writing when it ends: the file
\* is left truncated
FileAfterCallTruncated(file, jar) == [kind |-> "text", text |-> <<>>]

\* cookies.json after fetch_leaderboard, is_authenticated or get_user_info
\* ended: none of them calls _save_cookies, the file is what it was
FileAfterCall(file, jar) == file

\* the credential store after a client method ended
StoreAfterCall ==
    /\ cookies_file' = FileAfterCall(cookies_file, cookies)
    /\ UNCHANGED <<cookie_string, cookies, client, storeCall>>

\* session.request ended with `sess`: _make_request and the client method finish
Finish(sess) ==
    /\ transport' = MakeRequest(sess)
    /\ result' = ClientResult(call, MakeRequest(sess))
    /\ lastStatus' = IF sess.kind = "response" THEN sess.status ELSE lastStatus
    /\ retryableSeen' = IF sess.kind = "response"
                           /\ IsRetryable(request[1].method, sess.status)
                        THEN retryableSeen + 1 ELSE retryableSeen
    /\ errorsSeen' = IF sess.exc = "RequestException" THEN errorsSeen + 1 ELSE errorsSeen
    /\ UNCHANGED <<call, arg, request, sessionCalls, attempts, retriesLeft>>

\* fetch_leaderboard(p) up to its network call: validation, then the request
BeginFetchLeaderboard(p) ==
    /\ arg' = p
    /\ IF period_mapping(p) \notin valid_periods
       THEN /\ call' = "fetch_leaderboard"
            /\ result' = Raise("ValueError")
            /\ request' = None
            /\ sessionCalls' = 0
            /\ attempts' = 0
            /\ retriesLeft' = RetryTotal
            /\ retryableSeen' = 0
            /\ errorsSeen' = 0
            /\ lastStatus' = 0
            /\ transport' = NoOutcome
       ELSE Issue("fetch_leaderboard", LeaderboardRequest(period_mapping(p)))

(***************************************************************************)
(* A script that uses the client directly.                                 *)
(***************************************************************************)
PeriodInputs ==
    {"all", "month", "week", "all_time", "30_days", "7_days",
     "invalid_period", "", "ALL", "year"}

CallFetchLeaderboard ==
    /\ pc = "api"
    /\ ~InFlight
    /\ \E p \in PeriodInputs : BeginFetchLeaderboard(p)
    /\ UNCHANGED <<pc, cliVars>>
    /\ UNCHANGED <<hashVars, storeVars, configVars>>

CallIsAuthenticated ==
    /\ pc = "api"
    /\ ~InFlight
    /\ Issue("is_authenticated", ProfileRequest)
    /\ UNCHANGED <<pc, cliVars, arg>>
    /\ UNCHANGED <<hashVars, storeVars, configVars>>

CallGetUserInfo ==
    /\ pc = "api"
    /\ ~InFlight
    /\ Issue("get_user_info", ProfileRequest)
    /\ UNCHANGED <<pc, cliVars, arg>>
    /\ UNCHANGED <<hashVars, storeVars, configVars>>

\* session.request ends for good and the client method with it; the 200
\* bodies considered are given for the leaderboard and for the profile
ReturnsWith(leaderboardBodies, profileBodies) ==
    /\ pc = "api"
    /\ InFlight
    /\ \E sess \in SessionOutcomes(IF call = "fetch_leaderboard"
                                   THEN leaderboardBodies ELSE profileBodies) :
        Finish(sess)
    /\ StoreAfterCall
    /\ UNCHANGED <<pc, cliVars>>
    /\ UNCHANGED <<hashVars, configVars>>

ApiReturns == ReturnsWith(LeaderboardBodies, ProfileBodies)

ClientIdle ==
    /\ call = "none"
    /\ arg = ""
    /\ request = None
    /\ sessionCalls = 0
    /\ attempts = 0
    /\ retriesLeft = RetryTotal
    /\ retryableSeen = 0
    /\ errorsSeen = 0
    /\ lastStatus = 0
    /\ transport = NoOutcome
    /\ result = NoResult

InitClient ==
    /\ pc = "api"
    /\ watch = FALSE
    /\ period = "all_time"
    /\ clientAvailable = TRUE
    /\ previous_hash = None
    /\ displayed = None
    /\ displayCalls = 0
    /\ fetchCalls = 0
    /\ handledCalls = 0
    /\ sleepCalls = 0
    /\ lastData = None
    /\ lastFailed = FALSE
    /\ interrupted = FALSE
    /\ ClientIdle
    /\ HashIdle
    /\ StoreIdle
    /\ ConfigIdle

NextClient ==
    \/ CallFetchLeaderboard
    \/ CallIsAuthenticated
    \/ CallGetUserInfo
    \/ RetryOnStatus
    \/ RetryOnError
    \/ ApiReturns

SpecClient == InitClient /\ [][NextClient]_vars

(***************************************************************************)
(* cli.py: the leaderboard command.                                        *)
(***************************************************************************)
\* map_period_to_client: period_mapping.get(period, "all")
map_period_to_client(p) ==
    CASE p = "all_time" -> "all"
      [] p = "30_days" -> "month"
      [] p = "7_days" -> "week"
      [] OTHER -> "all"

\* the periods the command can run with: the --period choices, and whatever
\* string the configuration file holds as default_period
CliPeriods == {"all_time", "30_days", "7_days"}
CommandPeriods == CliPeriods \cup {"yearly"}

SampleEntry(rank, user, user_id, xp, completed, streak) ==
    << <<"rank", rank>>, <<"user", user>>, <<"user_id", user_id>>,
       <<"xp", xp>>, <<"completed", completed>>, <<"streak", streak>> >>

\* no fallback document: an empty one
NoFallbackData == <<>>

\* the fallback document of fetch_leaderboard_data
SAMPLE_DATA ==
    << <<"leaderboard",
         << SampleEntry(1, "Alice Johnson", "alice123", 2450, 12, 8),
            SampleEntry(2, "Bob Smith", "bob456", 2320, 11, 5),
            SampleEntry(3, "Carol Davis", "carol789", 2180, 10, 12),
            SampleEntry(4, "David Wilson", "david012", 2050, 10, 3),
            SampleEntry(5, "Eva Brown", "eva345", 1890, 9, 15) >> >> >>

\* the keys of the documents, in the order sort_keys puts them
KeyOrder ==
    <<"completed", "generated_at", "leaderboard", "name", "public_uid", "rank", "status", "streak",
      "top_members", "total_points", "user", "user_id", "xp">>

\* the keys whose value is a list of dicts
ListKeys == {"leaderboard", "top_members"}

\* a dict left in insertion order
SortKeysInsertionOrder(d) == d

\* a flat dict with its pairs in sorted key order
SortKeys(d) ==
    LET ks == SelectSeq(KeyOrder, LAMBDA k : Has(d, k))
    IN  [i \in 1..Len(ks) |-> <<ks[i], Item(d, ks[i])>>]

\* json.dumps(data, sort_keys=True): the canonical text, as its token structure
JsonDumpsSorted(data) ==
    LET ks == SelectSeq(KeyOrder, LAMBDA k : Has(data, k))
    IN  [i \in 1..Len(ks) |->
            <<ks[i],
              IF ks[i] \in ListKeys
              THEN [j \in 1..Len(Item(data, ks[i])) |-> SortKeys(Item(data, ks[i])[j])]
              ELSE Item(data, ks[i])>>]

\* compute_data_hash: the SHA-256 digest of the canonical text; the digest is
\* identified with the text it is computed from
compute_data_hash(data) == JsonDumpsSorted(data)

\* a change detector that reports every fetch as changed
HasDataChangedAlways(prev, data) == TRUE

\* has_data_changed(data): the flag it returns
HasDataChanged(prev, data) ==
    prev = None \/ compute_data_hash(data) # prev[1]

\* a has_data_changed that never retains the new fingerprint
HashAfterForgotten(prev, data) == prev

\* has_data_changed(data): previous_hash after the call
HashAfter(prev, data) ==
    IF HasDataChanged(prev, data) THEN Some(compute_data_hash(data)) ELSE prev

\* display_leaderboard_data(data): it reads config.user_id (cli.py 193), and
\* `config` is unbound when get_config() raised, so the call raises NameError
\* before anything is rendered
Display(data) ==
    /\ displayed' = IF configLoaded THEN Some(data) ELSE displayed
    /\ displayCalls' = displayCalls + 1

\* time.sleep(interval) is called: it raises ValueError for a negative interval
Sleep ==
    /\ sleepCalls' = sleepCalls + 1
    /\ pc' = IF interval < 0 THEN "crashed" ELSE "sleeping"

\* the command after fetch_leaderboard_data returned `data`: the initial display
\* (cli.py 253-259), or one turn of the watch loop (cli.py 266-272)
Handle(data, failed) ==
    /\ handledCalls' = handledCalls + 1
    /\ lastData' = Some(data)
    /\ lastFailed' = failed
    /\ IF handledCalls = 0
       THEN IF Truthy(data)
            THEN /\ previous_hash' = HashAfter(previous_hash, data)
                 /\ Display(data)
                 /\ IF ~configLoaded
                    THEN pc' = "crashed" /\ sleepCalls' = sleepCalls
                    ELSE IF watch
                         THEN Sleep
                         ELSE pc' = "done" /\ sleepCalls' = sleepCalls
            ELSE /\ pc' = "returned"
                 /\ UNCHANGED <<previous_hash, displayed, displayCalls, sleepCalls>>
       ELSE /\ IF Truthy(data)
               THEN /\ previous_hash' = HashAfter(previous_hash, data)
                    /\ IF HasDataChanged(previous_hash, data)
                       THEN Display(data)
                       ELSE UNCHANGED <<displayed, displayCalls>>
               ELSE UNCHANGED <<previous_hash, displayed, displayCalls>>
            /\ Sleep

\* fetch_leaderboard_data is called: at the start of the command, or when
\* time.sleep(interval) returned in the watch loop
StartFetch ==
    /\ pc \in {"start", "sleeping"}
    /\ fetchCalls < MaxFetches
    /\ fetchCalls' = fetchCalls + 1
    /\ IF clientAvailable
       THEN /\ BeginFetchLeaderboard(map_period_to_client(period))
            /\ IF period_mapping(map_period_to_client(period)) \in valid_periods
               THEN /\ pc' = IF pc = "start" THEN "initial_fetch" ELSE "loop_fetch"
                    /\ UNCHANGED <<previous_hash, displayed, displayCalls, handledCalls,
                                   sleepCalls, lastData, lastFailed>>
               ELSE Handle(SAMPLE_DATA, TRUE)
       ELSE /\ Handle(SAMPLE_DATA, FALSE)
            /\ UNCHANGED <<call, arg, request, sessionCalls, attempts, retriesLeft,
                           retryableSeen, errorsSeen, lastStatus, transport, result>>
    /\ UNCHANGED <<watch, period, clientAvailable, interrupted>>
    /\ UNCHANGED <<hashVars, storeVars, configVars>>

\* client.fetch_leaderboard ends, and fetch_leaderboard_data with it: the data,
\* or the sample data when the call raised
FetchReturns ==
    /\ pc \in {"initial_fetch", "loop_fetch"}
    /\ InFlight
    /\ \E sess \in SessionOutcomes(WatchBodies) :
        /\ Finish(sess)
        /\ IF ClientResult(call, MakeRequest(sess)).kind = "raise"
           THEN Handle(SAMPLE_DATA, TRUE)
           ELSE Handle(ClientResult(call, MakeRequest(sess)).data[1], FALSE)
    /\ StoreAfterCall
    /\ UNCHANGED <<fetchCalls, watch, period, clientAvailable, interrupted>>
    /\ UNCHANGED <<hashVars, configVars>>

\* the interrupt is caught inside the loop, which goes on
InterruptSwallowed ==
    /\ pc \in {"initial_fetch", "loop_fetch", "sleeping"}
    /\ ~interrupted
    /\ interrupted' = TRUE
    /\ UNCHANGED <<pc, watch, period, clientAvailable, previous_hash, displayed,
                   displayCalls, fetchCalls, handledCalls, sleepCalls, lastData,
                   lastFailed, call, arg, request, sessionCalls, attempts,
                   retriesLeft, retryableSeen, errorsSeen, lastStatus, transport,
                   result>>
    /\ UNCHANGED <<hashVars, storeVars, configVars>>

\* Ctrl+C while the command waits (in the network call or in time.sleep):
\* the except KeyboardInterrupt clause ends the command
KeyboardInterrupt ==
    /\ pc \in {"initial_fetch", "loop_fetch", "sleeping"}
    /\ interrupted' = TRUE
    /\ pc' = "cancelled"
    /\ UNCHANGED <<watch, period, clientAvailable, previous_hash, displayed,
                   displayCalls, fetchCalls, handledCalls, sleepCalls, lastData,
                   lastFailed, call, arg, request, sessionCalls, attempts,
                   retriesLeft, retryableSeen, errorsSeen, lastStatus, transport,
                   result>>
    /\ UNCHANGED <<hashVars, storeVars, configVars>>

Init ==
    /\ pc = "start"
    /\ watch \in BOOLEAN
    /\ period \in CommandPeriods
    /\ clientAvailable \in BOOLEAN
    /\ previous_hash = None
    /\ displayed = None
    /\ displayCalls = 0
    /\ fetchCalls = 0
    /\ handledCalls = 0
    /\ sleepCalls = 0
    /\ lastData = None
    /\ lastFailed = FALSE
    /\ interrupted = FALSE
    /\ ClientIdle
    /\ HashIdle
    /\ StoreIdle
    /\ ConfigIdle

Next ==
    \/ StartFetch
    \/ RetryOnStatus
    \/ RetryOnError
    \/ FetchReturns
    \/ KeyboardInterrupt

Spec == Init /\ [][Next]_vars

(***************************************************************************)
(* cli.py: the command with any --interval and any configuration.          *)
(***************************************************************************)
\* --interval as click hands it over (type=int, default=None): any integer
IntervalOptions == {None, Some(0 - 1), Some(0), Some(5)}

\* default_interval as the configuration file holds it: the getter returns
\* int(value) as it is
StoredIntervals == {0 - 5, 0, 30}

\* the interval after the defaults were applied (cli.py 94-106)
ResolveInterval(option, loaded, stored) ==
    IF option # None THEN option[1]
    ELSE IF loaded THEN stored
    ELSE DefaultInterval

\* the period after the defaults were applied: with a ConfigError it is the
\* option or "all_time"
ResolvedPeriods(loaded) == IF loaded THEN CommandPeriods ELSE CliPeriods

\* the command starts: get_config() returned or raised ConfigError (then
\* `config` stays unbound and create_client is never reached: client is None)
InitConfig ==
    /\ pc = "start"
    /\ watch \in BOOLEAN
    /\ configLoaded \in BOOLEAN
    /\ period \in ResolvedPeriods(configLoaded)
    /\ clientAvailable \in (IF configLoaded THEN BOOLEAN ELSE {FALSE})
    /\ \E option \in IntervalOptions, stored \in StoredIntervals :
         interval = ResolveInterval(option, configLoaded, stored)
    /\ previous_hash = None
    /\ displayed = None
    /\ displayCalls = 0
    /\ fetchCalls = 0
    /\ handledCalls = 0
    /\ sleepCalls = 0
    /\ lastData = None
    /\ lastFailed = FALSE
    /\ interrupted = FALSE
    /\ ClientIdle
    /\ HashIdle
    /\ StoreIdle

SpecConfig == InitConfig /\ [][Next]_vars

\* the exit status of the command: an exception that leaves the command ends
\* the process with status 1, a return or a caught interrupt with 0
ExitStatus == IF pc = "crashed" THEN 1 ELSE 0

\* the command ended
CommandEnded == pc \in {"done", "returned", "cancelled", "crashed"}

(***************************************************************************)
(* The watch loop: rendering, cancellation, failed fetches.                *)
(***************************************************************************)
\* a step in which fetch_leaderboard_data returned and its data was handled
FetchHandled == handledCalls' = handledCalls + 1

\* C1: in watch mode a successful fetch (one that yields a non-empty document)
\* is rendered exactly when it is the first fetch or its fingerprint differs
\* from the retained one, the retained fingerprint is then that of this fetch,
\* and no step renders more than once.
C1_RenderOnlyOnChange ==
    [][ /\ displayCalls' \in {displayCalls, displayCalls + 1}
        /\ (FetchHandled /\ ~lastFailed' /\ Truthy(lastData'[1]))
            => /\ displayCalls' =
                    IF previous_hash = None
                       \/ compute_data_hash(lastData'[1]) # previous_hash[1]
                    THEN displayCalls + 1 ELSE displayCalls
               /\ previous_hash' = Some(compute_data_hash(lastData'[1]))
               /\ (handledCalls = 0 => displayCalls' = 1) ]_vars

\* two identical upstream fetches in a row were rendered once
C1_Witness ==
    /\ watch
    /\ clientAvailable
    /\ handledCalls = 2
    /\ ~lastFailed
    /\ displayCalls = 1
    /\ displayed = lastData
    /\ previous_hash = Some(compute_data_hash(lastData[1]))

\* C2: once a KeyboardInterrupt is delivered the command is in its terminal
\* Cancelled state and fetch is never called again; delivered during the sleep
\* that follows the N-th fetch, exactly N fetches were called and handled.
C2_NoFetchAfterCancel ==
    [][ /\ interrupted' => pc' = "cancelled"
        /\ interrupted => fetchCalls' = fetchCalls
        /\ (pc = "sleeping" /\ interrupted')
            => /\ fetchCalls' = fetchCalls
               /\ handledCalls = fetchCalls
               /\ sleepCalls = fetchCalls ]_vars

\* cancelled during the sleep after the second fetch: two fetches, no third
C2_Witness ==
    /\ pc = "cancelled"
    /\ interrupted
    /\ fetchCalls = 2
    /\ handledCalls = 2
    /\ sleepCalls = 2

\* C3: in watch mode the command reaches a terminal position only by
\* cancellation, whatever a single fetch yields.
C3_OnlyCancellationEnds ==
    (watch /\ pc \in {"done", "returned", "cancelled"}) => interrupted

\* C4 as stated: every failed fetch renders the fallback snapshot.
C4_EveryFailureRenders ==
    [][ (FetchHandled /\ lastFailed') => displayCalls' = displayCalls + 1 ]_vars

\* C4 (amended): after a failed fetch the fallback sample is the snapshot on
\* display and the retained fingerprint is its fingerprint; it is rendered in
\* that step unless the retained fingerprint was already the fallback's; a
\* single-shot command then completes, a watching one goes on to sleep.
C4_FallbackShownOnFailure ==
    [][ (FetchHandled /\ lastFailed')
            => /\ lastData' = Some(SAMPLE_DATA)
               /\ displayed' = Some(SAMPLE_DATA)
               /\ previous_hash' = Some(compute_data_hash(SAMPLE_DATA))
               /\ displayCalls' =
                    IF previous_hash = Some(compute_data_hash(SAMPLE_DATA))
                    THEN displayCalls ELSE displayCalls + 1
               /\ pc' = IF watch THEN "sleeping" ELSE "done" ]_vars

\* two failed fetches in a row: the fallback was rendered once and the loop goes on
C4_Witness ==
    /\ watch
    /\ pc = "sleeping"
    /\ handledCalls = 2
    /\ lastFailed
    /\ displayCalls = 1
    /\ displayed = Some(SAMPLE_DATA)

(***************************************************************************)
(* The client: authentication signal, retries, periods, normalisation.     *)
(***************************************************************************)
\* the client method has ended
Finished == result.kind # "none"

\* the client method ended after a session.request
FinishedRequest == Finished /\ request # None

C6_BoundedRetries ==
    /\ attempts <= 4
    /\ request # None => request[1].method = "GET"
    /\ (InFlight /\ errorsSeen = 0) => attempts = 1 + retryableSeen
    /\ (FinishedRequest /\ errorsSeen = 0)
        => /\ attempts = IF 1 + retryableSeen <= 4 THEN 1 + retryableSeen ELSE 4
           /\ lastStatus \in {429, 500, 502, 503, 504}
                => /\ attempts = 4
                   /\ retryableSeen = 4
                   /\ transport.kind = "response"
                   /\ transport.status = lastStatus
           /\ lastStatus \notin {401, 429, 500, 502, 503, 504}
                => /\ transport.kind = "response"
                   /\ transport.status = lastStatus

\* the fourth attempt was still answered 503: that response is what
\* _make_request returned
C6_Witness ==
    /\ FinishedRequest
    /\ attempts = 4
    /\ errorsSeen = 0
    /\ retryableSeen = 4
    /\ transport.kind = "response"
    /\ transport.status = 503

\* the period values fetch_leaderboard recognises
RecognisedPeriods == {"all", "month", "week", "all_time", "30_days", "7_days"}

\* C7: fetch_leaderboard with a period that is not recognised ends in
\* ValueError without any session request or HTTP attempt.
C7_InvalidPeriodNoRequest ==
    (call = "fetch_leaderboard" /\ arg \notin RecognisedPeriods)
        => /\ result = Raise("ValueError")
           /\ request = None
           /\ sessionCalls = 0
           /\ attempts = 0

C7_Witness ==
    /\ call = "fetch_leaderboard"
    /\ arg = "invalid_period"
    /\ result = Raise("ValueError")
    /\ attempts = 0

\* the query value each recognised period stands for
QueryValue(p) ==
    CASE p \in {"all", "all_time"} -> "all_time"
      [] p \in {"month", "30_days"} -> "30_days"
      [] p \in {"week", "7_days"} -> "7_days"

\* C8: fetch_leaderboard with a recognised period makes exactly one session
\* request, a GET to /internal_api//gamification/leaderboard with the mapped
\* period as its query parameter and in its Referer, sent in one HTTP attempt
\* unless the adapter retries it; and the command's period reaches the query
\* unchanged through map_period_to_client.
C8_OneMappedRequest ==
    /\ (call = "fetch_leaderboard" /\ arg \in RecognisedPeriods)
        => /\ sessionCalls = 1
           /\ request =
                Some([method |-> "GET",
                      url |-> <<"https://hub.tripleten.com",
                                "/internal_api//gamification/leaderboard">>,
                      params |-> << <<"period", QueryValue(arg)>> >>,
                      headers |-> << <<"Referer",
                                       <<"https://hub.tripleten.com/leaderboard/?period=",
                                         QueryValue(arg)>> >> >>])
           /\ attempts >= 1
           /\ (retryableSeen + errorsSeen = 0 => attempts = 1)
    /\ \A c \in {"all_time", "30_days", "7_days"} :
        /\ map_period_to_client(c) \in {"all", "month", "week"}
        /\ period_mapping(map_period_to_client(c)) = c

C8_Witness ==
    /\ call = "fetch_leaderboard"
    /\ arg = "week"
    /\ request[1].params = << <<"period", "7_days">> >>
    /\ attempts = 1
    /\ result.kind = "return"

\* fetch_leaderboard ended on a 200 response whose body parsed to a document
Parsed200 ==
    /\ call = "fetch_leaderboard"
    /\ Finished
    /\ transport.kind = "response"
    /\ transport.status = 200
    /\ transport.body.json

\* C9: a 200 body with a top_members list comes back as a document whose only
\* key is leaderboard, with one entry per member in source order: rank the
\* 1-based position, completed and streak 0 whatever the member holds, user,
\* user_id and xp the member's name, public_uid and total_points or their
\* defaults "Unknown", "" and 0; the call never fails on such a body.
C9_TopMembersNormalised ==
    (Parsed200 /\ Has(transport.body.value, "top_members"))
        => /\ result.kind = "return"
           /\ Len(result.data[1]) = 1
           /\ Has(result.data[1], "leaderboard")
           /\ LET members == Item(transport.body.value, "top_members")
                  entries == Item(result.data[1], "leaderboard")
              IN  /\ Len(entries) = Len(members)
                  /\ \A i \in 1..Len(members) :
                        /\ Len(entries[i]) = 6
                        /\ Item(entries[i], "rank") = i
                        /\ Item(entries[i], "completed") = 0
                        /\ Item(entries[i], "streak") = 0
                        /\ Item(entries[i], "user") =
                             IF Has(members[i], "name")
                             THEN Item(members[i], "name") ELSE "Unknown"
                        /\ Item(entries[i], "user_id") =
                             IF Has(members[i], "public_uid")
                             THEN Item(members[i], "public_uid") ELSE ""
                        /\ Item(entries[i], "xp") =
                             IF Has(members[i], "total_points")
                             THEN Item(members[i], "total_points") ELSE 0

\* two members: one with a rank, completed and streak of its own, one with no
\* field at all
C9_Witness ==
    /\ Parsed200
    /\ transport.body.value = ShapeB(<<MemberFields, Member({})>>)
    /\ result.kind = "return"
    /\ Item(result.data[1], "leaderboard")[2] =
         << <<"rank", 2>>, <<"user", "Unknown">>, <<"user_id", "">>,
            <<"xp", 0>>, <<"completed", 0>>, <<"streak", 0>> >>

\* C10 as stated: a 200 body with a leaderboard list is returned verbatim.
C10_LeaderboardVerbatim ==
    (Parsed200 /\ Has(transport.body.value, "leaderboard"))
        => result = Return(transport.body.value)

\* C10 (amended): a 200 body with a leaderboard list and no top_members key is
\* returned verbatim: same entries, fields, values and order.
C10_ShapeAVerbatim ==
    (Parsed200 /\ Has(transport.body.value, "leaderboard")
               /\ ~Has(transport.body.value, "top_members"))
        => result = Return(transport.body.value)

\* two upstream entries whose ranks are not their positions came back as sent
C10_Witness ==
    /\ Parsed200
    /\ transport.body.value = ShapeA(<<ShapedEntry(2, 1000), ShapedEntry(1, 1001)>>)
    /\ result = Return(ShapeA(<<ShapedEntry(2, 1000), ShapedEntry(1, 1001)>>))

(***************************************************************************)
(* cli.py: compute_data_hash as a function of its argument.                *)
(***************************************************************************)
\* the command and the client at rest
CliIdle ==
    /\ watch = FALSE
    /\ period = "all_time"
    /\ clientAvailable = TRUE
    /\ previous_hash = None
    /\ displayed = None
    /\ displayCalls = 0
    /\ fetchCalls = 0
    /\ handledCalls = 0
    /\ sleepCalls = 0
    /\ lastData = None
    /\ lastFailed = FALSE
    /\ interrupted = FALSE
    /\ ConfigIdle

\* the same dict built with its keys inserted in the opposite order
ReverseKeys(d) == [i \in 1..Len(d) |-> d[Len(d) + 1 - i]]

\* entries handed to compute_data_hash: two builds of one entry, and another entry
HashEntries ==
    {ShapedEntry(1, 1000), ReverseKeys(ShapedEntry(1, 1000)), ShapedEntry(2, 1001)}

\* documents handed to compute_data_hash: a leaderboard list alone, or with a
\* second key inserted before or after it
HashPayloads ==
    UNION { { ShapeA(es),
              << <<"status", "ok">>, <<"leaderboard", es>> >>,
              << <<"leaderboard", es>>, <<"status", "ok">> >> } :
            es \in SeqsUpTo(HashEntries, MaxMembers) }

\* compute_data_hash(data) is called with the next document
ComputeDataHash ==
    /\ pc = "hash"
    /\ Len(digests) < Len(payloads)
    /\ digests' = Append(digests, compute_data_hash(payloads[Len(digests) + 1]))
    /\ UNCHANGED <<coreVars, payloads, storeVars>>

InitHash ==
    /\ pc = "hash"
    /\ CliIdle
    /\ ClientIdle
    /\ StoreIdle
    /\ payloads \in {<<d1, d2>> : d1 \in HashPayloads, d2 \in HashPayloads}
    /\ digests = <<>>

NextHash == ComputeDataHash

SpecHash == InitHash /\ [][NextHash]_vars

\* the keys of a dict
Keys(d) == {d[i][1] : i \in 1..Len(d)}

\* two flat dicts hold the same keys with the same values
SameEntry(a, b) ==
    /\ Keys(a) = Keys(b)
    /\ \A k \in Keys(a) : Item(a, k) = Item(b, k)

\* two entry sequences hold the same entries in the same order
SameEntries(es1, es2) ==
    /\ Len(es1) = Len(es2)
    /\ \A j \in 1..Len(es1) : SameEntry(es1[j], es2[j])

\* two documents that differ at most in the order of their keys, at any level
SameUpToKeyOrder(d1, d2) ==
    /\ Keys(d1) = Keys(d2)
    /\ \A k \in Keys(d1) :
         IF k \in ListKeys
         THEN SameEntries(Item(d1, k), Item(d2, k))
         ELSE Item(d1, k) = Item(d2, k)

\* both documents of the run were hashed
BothHashed == Len(payloads) = 2 /\ Len(digests) = 2

\* C11: compute_data_hash ignores the key order of the dicts it is given and
\* depends on the entry sequence: two payloads that differ only in key order get
\* the same digest, and two payloads whose entry sequences differ in content or
\* in order get different digests.
C11_KeyOrderInsensitive ==
    BothHashed =>
        /\ SameUpToKeyOrder(payloads[1], payloads[2]) => digests[1] = digests[2]
        /\ ~SameEntries(Item(payloads[1], "leaderboard"), Item(payloads[2], "leaderboard"))
              => digests[1] # digests[2]

\* two builds of one payload that differ in key order at both levels got one
\* digest, in a run that is not a comparison of a document with itself
C11_Witness ==
    /\ BothHashed
    /\ payloads[1] = << <<"status", "ok">>,
                        <<"leaderboard", <<ShapedEntry(1, 1000), ShapedEntry(2, 1001)>> >> >>
    /\ payloads[2] = << <<"leaderboard",
                          <<ReverseKeys(ShapedEntry(1, 1000)), ShapedEntry(2, 1001)>> >>,
                        <<"status", "ok">> >>
    /\ digests[1] = digests[2]

(***************************************************************************)
(* The fingerprint of the watch loop and the entries of a snapshot.        *)
(***************************************************************************)
\* the entries of a snapshot: data.get("leaderboard", [])
Entries(data) == Get(data, "leaderboard", <<>>)

\* C12 as stated: the fingerprint of the watch loop depends on the entries only:
\* a fetched payload whose entries equal, in the same order, those of the payload
\* fetched before it has the same fingerprint and is not rendered again.
C12_SameEntriesNotRerendered ==
    [][(/\ FetchHandled
        /\ lastData # None
        /\ ~lastFailed /\ ~lastFailed'
        /\ Has(lastData[1], "leaderboard")
        /\ Has(lastData'[1], "leaderboard")
        /\ SameEntries(Entries(lastData[1]), Entries(lastData'[1])))
            => /\ compute_data_hash(lastData'[1]) = compute_data_hash(lastData[1])
               /\ displayCalls' = displayCalls]_vars

(***************************************************************************)
(* client.py: the cookie jar and login's parsing of the cookie string.     *)
(*                                                                         *)
(* A Python str is the sequence of its characters.  The jar holds one      *)
(* <<name, value, domain>> entry per cookie, in insertion order.           *)
(***************************************************************************)
\* c in s
Contains(s, c) == \E i \in 1..Len(s) : s[i] = c

\* s.strip()
Strip(s) ==
    LET solid == {i \in 1..Len(s) : s[i] # " "}
    IN  IF solid = {}
        THEN <<>>
        ELSE SubSeq(s, CHOOSE i \in solid : \A j \in solid : i <= j,
                       CHOOSE i \in solid : \A j \in solid : i >= j)

\* the index of the first "=" of a string that contains one
FirstEquals(s) == CHOOSE i \in 1..Len(s) : s[i] = "=" /\ \A j \in 1..(i - 1) : s[j] # "="

\* a split at every "=": name up to the first, value after the last
SplitAtLastEquals(s) ==
    LET last == CHOOSE i \in 1..Len(s) : s[i] = "=" /\ \A j \in (i + 1)..Len(s) : s[j] # "="
    IN  <<SubSeq(s, 1, FirstEquals(s) - 1), SubSeq(s, last + 1, Len(s))>>

\* s.split("=", 1) of a string that contains "=": <<name, value>>
SplitAtFirstEquals(s) ==
    <<SubSeq(s, 1, FirstEquals(s) - 1), SubSeq(s, FirstEquals(s) + 1, Len(s))>>

\* the while loop of login (client.py 141-154) from index i on, and the
\* statement after it: the cookie_parts it ends with
RECURSIVE ScanCookieParts(_, _, _, _)
ScanCookieParts(s, i, current_part, cookie_parts) ==
    IF i > Len(s)
    THEN IF Strip(current_part) # <<>> /\ Contains(current_part, "=")
         THEN Append(cookie_parts, Strip(current_part))
         ELSE cookie_parts
    ELSE IF i < Len(s) /\ s[i] = ";" /\ s[i + 1] = " " /\ Contains(current_part, "=")
         THEN ScanCookieParts(s, i + 2, <<>>, Append(cookie_parts, Strip(current_part)))
         ELSE ScanCookieParts(s, i + 1, Append(current_part, s[i]), cookie_parts)

\* the domain login sets its cookies for, and the one cookies.set defaults to
LoginDomain == "hub.tripleten.com"
DefaultDomain == ""

\* session.cookies.set(name, value, domain=domain): the jar keeps one cookie per
\* domain and name
SetCookie(jar, name, value, domain) ==
    IF \E i \in 1..Len(jar) : jar[i][1] = name /\ jar[i][3] = domain
    THEN [i \in 1..Len(jar) |->
            IF jar[i][1] = name /\ jar[i][3] = domain THEN <<name, value, domain>> ELSE jar[i]]
    ELSE Append(jar, <<name, value, domain>>)

\* the for loop of login (client.py 159-167) from part k on
RECURSIVE SetCookieParts(_, _, _)
SetCookieParts(jar, cookie_parts, k) ==
    IF k > Len(cookie_parts)
    THEN jar
    ELSE LET part == cookie_parts[k]
             name == Strip(SplitAtFirstEquals(part)[1])
             value == Strip(SplitAtFirstEquals(part)[2])
         IN  IF Contains(part, "=") /\ name # <<>> /\ value # <<>>
             THEN SetCookieParts(SetCookie(jar, name, value, LoginDomain), cookie_parts, k + 1)
             ELSE SetCookieParts(jar, cookie_parts, k + 1)

\* a clear() that leaves the jar as it is
KeepCookies(jar) == jar

\* self.session.cookies.clear()
ClearCookies(jar) == <<>>

\* the jar after login cleared it and parsed cookie_string (client.py 136-167)
LoginCookies(jar, s) ==
    IF s = <<>>
    THEN ClearCookies(jar)
    ELSE SetCookieParts(ClearCookies(jar), ScanCookieParts(s, 1, <<>>, <<>>), 1)

(***************************************************************************)
(* client.py: cookies.json.  The text of the file is the sequence of its   *)
(* JSON tokens; a file is absent, holds text, holds bytes that are not     *)
(* text, or cannot be opened.                                              *)
(***************************************************************************)
Punct(t) == [t |-> t, v |-> <<>>]
StringToken(chars) == [t |-> "str", v |-> chars]

TextFile(tokens) == [kind |-> "text", text |-> tokens]
UndecodableFile == [kind |-> "undecodable", text |-> <<>>]
UnopenableFile == [kind |-> "unopenable", text |-> <<>>]

\* dict[name] = value: a new key goes last, an old one keeps its place
SetItem(d, name, value) ==
    IF \E i \in 1..Len(d) : d[i][1] = name
    THEN [i \in 1..Len(d) |-> IF d[i][1] = name THEN <<name, value>> ELSE d[i]]
    ELSE Append(d, <<name, value>>)

\* {cookie.name: cookie.value for cookie in self.session.cookies}, from entry k on
RECURSIVE CookieDict(_, _, _)
CookieDict(jar, k, d) ==
    IF k > Len(jar)
    THEN d
    ELSE CookieDict(jar, k + 1, SetItem(d, jar[k][1], jar[k][2]))

\* the tokens of the members of a dict, from member k on
RECURSIVE MemberTokens(_, _)
MemberTokens(d, k) ==
    IF k > Len(d)
    THEN <<>>
    ELSE (IF k > 1 THEN <<Punct(",")>> ELSE <<>>)
         \o <<StringToken(d[k][1]), Punct(":"), StringToken(d[k][2])>>
         \o MemberTokens(d, k + 1)

\* json.dump(cookies_data, f, indent=2): the text it writes
JsonDump(d) == <<Punct("{")>> \o MemberTokens(d, 1) \o <<Punct("}")>>

\* the result of a JSON parser
Invalid == [ok |-> FALSE, type |-> "", value |-> <<>>]
Parsed(type, value) == [ok |-> TRUE, type |-> type, value |-> value]

\* the members of an object, read from token i on into d
RECURSIVE ParseMembers(_, _, _)
ParseMembers(toks, i, d) ==
    IF /\ i + 3 <= Len(toks)
       /\ toks[i].t = "str" /\ toks[i + 1].t = ":" /\ toks[i + 2].t = "str"
    THEN LET d2 == SetItem(d, toks[i].v, toks[i + 2].v)
         IN  IF toks[i + 3].t = "}" /\ i + 3 = Len(toks)
             THEN Parsed("dict", d2)
             ELSE IF toks[i + 3].t = ","
                  THEN ParseMembers(toks, i + 4, d2)
                  ELSE Invalid
    ELSE Invalid

\* json.load(f): an object of strings, an empty array, or a JSONDecodeError
JsonLoad(toks) ==
    IF Len(toks) = 2 /\ toks[1].t = "{" /\ toks[2].t = "}"
    THEN Parsed("dict", <<>>)
    ELSE IF Len(toks) = 2 /\ toks[1].t = "[" /\ toks[2].t = "]"
    THEN Parsed("list", <<>>)
    ELSE IF Len(toks) >= 1 /\ toks[1].t = "{"
    THEN ParseMembers(toks, 2, <<>>)
    ELSE Invalid

\* a loader that sets the first item only
SetFirstLoadedCookie(jar, cookies_data, k) ==
    IF Len(cookies_data) = 0
    THEN jar
    ELSE SetCookie(jar, cookies_data[1][1], cookies_data[1][2], DefaultDomain)

\* the for loop of _load_cookies (client.py 99-100) from item k on
RECURSIVE SetLoadedCookies(_, _, _)
SetLoadedCookies(jar, cookies_data, k) ==
    IF k > Len(cookies_data)
    THEN jar
    ELSE SetLoadedCookies(
            SetCookie(jar, cookies_data[k][1], cookies_data[k][2], DefaultDomain),
            cookies_data, k + 1)

\* _load_cookies on a fresh session: the exception that leaves it ("" when it
\* returns) and the jar.  The except clause takes JSONDecodeError and IOError.
LoadCookies(file) ==
    CASE file.kind = "absent" -> [exc |-> "", jar |-> <<>>]
      [] file.kind = "unopenable" -> [exc |-> "", jar |-> <<>>]
      [] file.kind = "undecodable" -> [exc |-> "UnicodeDecodeError", jar |-> <<>>]
      [] file.kind = "text" ->
            IF ~JsonLoad(file.text).ok
            THEN [exc |-> "", jar |-> <<>>]
            ELSE IF JsonLoad(file.text).type # "dict"
            THEN [exc |-> "AttributeError", jar |-> <<>>]
            ELSE [exc |-> "", jar |-> SetLoadedCookies(<<>>, JsonLoad(file.text).value, 1)]

\* how a _save_cookies call can go: mkdir fails (only when the directory is
\* missing), open fails, the write fails after open truncated the file, or
\* everything succeeds
SaveOutcomes(file) ==
    CASE file.kind = "unopenable" -> {"open_failed"}
      [] file.kind = "absent" -> {"ok", "mkdir_failed", "open_failed", "write_failed"}
      [] OTHER -> {"ok", "open_failed", "write_failed"}

\* the number of tokens on disk when a write fails: none, or all but the last
\* (the other outcomes do not depend on it)
WritePoints(text, outcome) ==
    IF outcome = "write_failed" THEN {0, Len(text) - 1} ELSE {0}

\* a _save_cookies whose except clause catches nothing
SaveCookiesUncaught(file, jar, outcome, k) ==
    [exc |-> IF outcome = "ok" THEN "" ELSE "OSError", file |-> file]

\* _save_cookies: the exception that leaves it ("" when it returns) and the
\* file it leaves; every failure is an OSError, which except IOError catches
SaveCookies(file, jar, outcome, k) ==
    CASE outcome = "ok" ->
            [exc |-> "", file |-> TextFile(JsonDump(CookieDict(jar, 1, <<>>)))]
      [] outcome = "write_failed" ->
            [exc |-> "", file |-> TextFile(SubSeq(JsonDump(CookieDict(jar, 1, <<>>)), 1, k))]
      [] OTHER ->
            [exc |-> "", file |-> file]

(***************************************************************************)
(* Clients on one configuration directory: construction and login.         *)
(***************************************************************************)
\* fragments of a cookie string: two pairs, a word without "=", a value that
\* holds "=", an empty name, an empty value
Fragments ==
    { <<"a", "=", "1">>, <<"b", "=", "2">>, <<"j">>,
      <<"k", "=", "v", "=", "w">>, <<"=", "3">>, <<"f", "=">> }

\* what stands between two fragments: "; " or ";"
Separators == { <<";", " ">>, <<";">> }

\* the cookie strings of n fragments
RECURSIVE StringsOf(_)
StringsOf(n) ==
    IF n = 1
    THEN Fragments
    ELSE {s \o sep \o f : s \in StringsOf(n - 1), sep \in Separators, f \in Fragments}

\* the cookie strings login is called with
LoginInputs == {<<>>} \cup UNION {StringsOf(n) : n \in 1..MaxFragments}

\* cookies.json as a run finds it: absent, a document saved earlier, a JSON
\* array, bytes that are not text, a file that cannot be opened
InitialFiles ==
    { AbsentFile,
      TextFile(JsonDump(<< <<<<"o", "l", "d">>, <<"0">>>> >>)),
      TextFile(<<Punct("["), Punct("]")>>),
      UndecodableFile,
      UnopenableFile }

\* TripleTenHTTPClient(config_dir): a new session, then _load_cookies
CreateClient ==
    /\ pc = "store"
    /\ cookies' = LoadCookies(cookies_file).jar
    /\ client' = IF LoadCookies(cookies_file).exc = "" THEN "ready" ELSE "crashed"
    /\ storeCall' = [op |-> "init", arg |-> <<>>, held |-> <<>>,
                     exc |-> LoadCookies(cookies_file).exc, save |-> "none"]
    /\ UNCHANGED <<coreVars, hashVars, cookie_string, cookies_file>>

\* client.login(s), with the run's cookie string or with ""
Login ==
    /\ pc = "store"
    /\ client = "ready"
    /\ \E s \in {cookie_string, <<>>} :
       \E jar \in {LoginCookies(cookies, s)} :
       \E outcome \in SaveOutcomes(cookies_file) :
       \E k \in WritePoints(JsonDump(CookieDict(jar, 1, <<>>)), outcome) :
       \E saved \in {SaveCookies(cookies_file, jar, outcome, k)} :
          /\ cookies' = jar
          /\ cookies_file' = saved.file
          /\ storeCall' = [op |-> "login", arg |-> s, held |-> cookies,
                           exc |-> saved.exc, save |-> outcome]
    /\ UNCHANGED <<coreVars, hashVars, cookie_string, client>>

InitLogin ==
    /\ pc = "store"
    /\ CliIdle
    /\ ClientIdle
    /\ HashIdle
    /\ cookie_string \in LoginInputs
    /\ cookies_file \in InitialFiles
    /\ cookies = <<>>
    /\ client = "none"
    /\ storeCall = NoStoreCall

NextLogin ==
    \/ CreateClient
    \/ Login

SpecLogin == InitLogin /\ [][NextLogin]_vars

\* a login call has just ended
LoginEnded == storeCall.op = "login"

\* the <<name, value>> pairs of a jar
NameValues(jar) == [i \in 1..Len(jar) |-> <<jar[i][1], jar[i][2]>>]

\* the jar holds a cookie of that name and value
Holds(jar, name, value) == \E i \in 1..Len(jar) : jar[i][1] = name /\ jar[i][2] = value

\* C13 as stated: login splits the cookie header at every ";", followed by a
\* space or not: login("a=1; b=2") yields exactly the cookies a = "1" and
\* b = "2", and login("a=1;b=2") stores a cookie b = "2" as well.
C13_SplitsAtEverySemicolon ==
    /\ (LoginEnded /\ storeCall.arg = <<"a", "=", "1", ";", " ", "b", "=", "2">>)
          => NameValues(cookies) = << <<<<"a">>, <<"1">>>>, <<<<"b">>, <<"2">>>> >>
    /\ (LoginEnded /\ storeCall.arg = <<"a", "=", "1", ";", "b", "=", "2">>)
          => Holds(cookies, <<"b">>, <<"2">>)

\* the cookies login's parser takes from s: the jar a login on an empty jar leaves
ParsedFrom(s) == SetCookieParts(<<>>, ScanCookieParts(s, 1, <<>>, <<>>), 1)

\* cookies.json holds a complete document with exactly the pairs of the jar
Persisted(file, jar) ==
    /\ file.kind = "text"
    /\ JsonLoad(file.text) = Parsed("dict", NameValues(jar))

\* C14 as stated: after login(s) the jar is exactly what was parsed from s,
\* whatever it held before, and cookies.json holds the same pairs; after
\* login("") both are empty.
C14_ReplacedAndPersisted ==
    LoginEnded =>
        /\ storeCall.exc = ""
        /\ cookies = ParsedFrom(storeCall.arg)
        /\ Persisted(cookies_file, cookies)
        /\ storeCall.arg = <<>> => (cookies = <<>> /\ Persisted(cookies_file, <<>>))

\* C14 (amended): after login(s) the jar is exactly what was parsed from s,
\* whatever it held before; cookies.json holds the same pairs when the save
\* succeeded; after login("") the jar is empty, and so is the document when the
\* save succeeded.
C14_ReplacedAndPersistedOnSuccess ==
    LoginEnded =>
        /\ storeCall.exc = ""
        /\ cookies = ParsedFrom(storeCall.arg)
        /\ storeCall.save = "ok" => Persisted(cookies_file, cookies)
        /\ storeCall.arg = <<>> =>
              /\ cookies = <<>>
              /\ storeCall.save = "ok" => Persisted(cookies_file, <<>>)

\* a client that had loaded the cookie old = "0" logged in with "a=1; b=2": the
\* jar and cookies.json hold a and b, and old is gone from both
C14_Witness ==
    /\ LoginEnded
    /\ storeCall.arg = <<"a", "=", "1", ";", " ", "b", "=", "2">>
    /\ storeCall.held = << <<<<"o", "l", "d">>, <<"0">>, DefaultDomain>> >>
    /\ storeCall.save = "ok"
    /\ NameValues(cookies) = << <<<<"a">>, <<"1">>>>, <<<<"b">>, <<"2">>>> >>
    /\ cookies_file = TextFile(JsonDump(NameValues(cookies)))

\* the parts the scanner of login cuts s into
PartsOf(s) == IF s = <<>> THEN <<>> ELSE ScanCookieParts(s, 1, <<>>, <<>>)

\* C15: login never raises, whatever the string and however its last fragment
\* ends; every stored cookie is a part cut at its first "=" (name before it,
\* value after it, so the value may hold "="), and no stored cookie has an
\* empty name or an empty value.
C15_NeverRaisesFirstEquals ==
    LoginEnded =>
        /\ storeCall.exc = ""
        /\ client = "ready"
        /\ \A i \in 1..Len(cookies) :
              /\ cookies[i][1] # <<>>
              /\ cookies[i][2] # <<>>
              /\ ~Contains(cookies[i][1], "=")
              /\ \E j \in 1..Len(PartsOf(storeCall.arg)) :
                    LET part == PartsOf(storeCall.arg)[j]
                    IN  /\ Contains(part, "=")
                        /\ cookies[i][1] = Strip(SubSeq(part, 1, FirstEquals(part) - 1))
                        /\ cookies[i][2] = Strip(SubSeq(part, FirstEquals(part) + 1, Len(part)))

\* login("k=v=w; f=") returned: the only cookie is k = "v=w", cut at its first
\* "=", and the trailing fragment without a value stored nothing
C15_Witness ==
    /\ LoginEnded
    /\ storeCall.exc = ""
    /\ storeCall.arg = <<"k", "=", "v", "=", "w", ";", " ", "f", "=">>
    /\ NameValues(cookies) = << <<<<"k">>, <<"v", "=", "w">>>> >>

\* C16 as stated: a fragment without "=" is skipped and leaves its neighbours
\* alone: in "j; f" and "f; j", f being a=1 or b=2, the pair f is stored under
\* its own name with its own value and "j" appears in no stored name or value.
C16_FragmentWithoutEqualsSkipped ==
    LoginEnded =>
        \A f \in {<<"a", "=", "1">>, <<"b", "=", "2">>} :
            (\/ storeCall.arg = <<"j", ";", " ">> \o f
             \/ storeCall.arg = f \o <<";", " ", "j">>)
                => /\ NameValues(cookies) = << <<<<f[1]>>, <<f[3]>>>> >>
                   /\ \A i \in 1..Len(cookies) :
                         ~Contains(cookies[i][1], "j") /\ ~Contains(cookies[i][2], "j")

(***************************************************************************)
(* cookies.json across clients: loading, saving, the round trip.           *)
(***************************************************************************)
\* the file holds a complete name -> value document
ValidDocument(file) ==
    /\ file.kind = "text"
    /\ JsonLoad(file.text).ok
    /\ JsonLoad(file.text).type = "dict"

\* a constructor call has just ended
ConstructorEnded == storeCall.op = "init"

\* C17 as stated: constructing a client never raises: with cookies.json absent,
\* or present without a valid name -> value document in it, the client is
\* constructed with an empty jar.
C17_LoadNeverRaises ==
    ConstructorEnded =>
        /\ storeCall.exc = ""
        /\ client = "ready"
        /\ ~ValidDocument(cookies_file) => cookies = <<>>

\* C18 as stated: a save that fails part-way leaves cookies.json with the
\* complete previous document or the complete new one: a file that held a
\* valid document holds, after any step, the same text or a valid document
\* with the pairs of the jar.
C18_SaveIsAtomic ==
    [][ValidDocument(cookies_file)
          => \/ cookies_file' = cookies_file
             \/ (ValidDocument(cookies_file') /\ Persisted(cookies_file', cookies'))]_vars

\* C19: a failing save is not fatal: when the directory cannot be created, the
\* file cannot be opened or the write fails, login returns without raising,
\* the client stays usable and the jar holds the cookies parsed from the string.
C19_SaveFailureNotFatal ==
    (LoginEnded /\ storeCall.save # "ok") =>
        /\ storeCall.exc = ""
        /\ client = "ready"
        /\ cookies = ParsedFrom(storeCall.arg)

\* login("a=1; b=2") returned although the write failed after open had
\* truncated cookies.json: the jar holds a and b, the file holds nothing
C19_Witness ==
    /\ LoginEnded
    /\ storeCall.save = "write_failed"
    /\ storeCall.exc = ""
    /\ storeCall.arg = <<"a", "=", "1", ";", " ", "b", "=", "2">>
    /\ NameValues(cookies) = << <<<<"a">>, <<"1">>>>, <<<<"b">>, <<"2">>>> >>
    /\ cookies_file = TextFile(<<>>)

ProbeEnded == Finished /\ call \in {"is_authenticated", "get_user_info"}

\* C21 as stated: when the profile endpoint answers 401, is_authenticated
\* returns False and get_user_info returns None, neither raises; a network
\* failure is never turned into False or None but raised to the caller.
C21_ProbeAnswersOn401 ==
    /\ (ProbeEnded /\ transport = Raised("AuthenticationError"))
          => result = IF call = "is_authenticated" THEN ReturnBool(FALSE) ELSE ReturnNone
    /\ (ProbeEnded /\ transport.exc = "ConnectionError")
          => result = Raise("ConnectionError")

\* fetch_leaderboard has ended after a response with that status class arrived
FetchAnswered == Finished /\ call = "fetch_leaderboard" /\ transport.kind = "response"

\* a body that is not a leaderboard document: not JSON, not a JSON object, or an
\* object with neither a leaderboard nor a top_members key
Unrecognised(body) ==
    \/ ~body.json
    \/ body.type # "object"
    \/ (~Has(body.value, "leaderboard") /\ ~Has(body.value, "top_members"))

\* C22 as stated: a 200 response whose body does not parse, or parses to
\* something that is neither a leaderboard document nor a top_members
\* document, makes fetch_leaderboard raise ValueError: nothing is returned and
\* no other exception leaves the call.
C22_MalformedBodyRejected ==
    (FetchAnswered /\ transport.status = 200 /\ Unrecognised(transport.body))
        => result = Raise("ValueError")

\* the detail the message of an API error is to carry for a body: its message
\* field, else its raw text, else nothing
ExpectedDetailSource(body) ==
    IF body.json /\ body.type = "object" /\ Has(body.value, "message") THEN "message"
    ELSE IF body.type # "empty" THEN "raw"
    ELSE "none"

\* C23 as stated: every response with a status other than 200 and 401, whatever
\* its body, makes fetch_leaderboard raise HTTPError with that status; the
\* message carries the body's message field when it is structured data with
\* one, otherwise the raw body text, otherwise the status text alone.
C23_ApiErrorWithMessage ==
    (FetchAnswered /\ transport.status # 200) =>
        /\ transport.status # 401
        /\ result.kind = "raise"
        /\ result.exc = "HTTPError"
        /\ result.error.status = transport.status
        /\ result.error.detail.from = ExpectedDetailSource(transport.body)
        /\ ExpectedDetailSource(transport.body) = "message"
              => result.error.detail.text = Item(transport.body.value, "message")
        /\ ~transport.body.json
              => result.error.detail.text = transport.body.plain

(***************************************************************************)
(* cli.py: a failed fetch in a single-shot run.                            *)
(***************************************************************************)
\* C24 as stated: in a single-shot (non-watch) run, when the fetch fails the
\* command surfaces the error and exits with a non-zero status.
C24_SingleShotFailureExitsNonZero ==
    (~watch /\ CommandEnded /\ lastFailed) => ExitStatus # 0

(***************************************************************************)
(* client.py: transport failures of _make_request.                         *)
(***************************************************************************)
\* the step in which session.request ended for good with a RequestException
\* (a step that gives up: the retried failures keep the call in flight)
TransportFailed ==
    /\ InFlight
    /\ ~InFlight'
    /\ attempts' = attempts
    /\ errorsSeen' = errorsSeen + 1

Fetching == pc \in {"initial_fetch", "loop_fetch"}

\* C26 as stated: the events follow Fetch (Sleep Fetch)*: no sleep precedes the
\* first fetch, every handled fetch of a watch run is followed by exactly one
\* sleep before the next fetch, no two fetches occur without a sleep between
\* them, and a non-watch run performs one fetch and one render and never
\* sleeps.
C26_FetchSleepOrder ==
    /\ pc = "start" => (fetchCalls = 0 /\ sleepCalls = 0)
    /\ Fetching => (sleepCalls = fetchCalls - 1 /\ handledCalls = fetchCalls - 1)
    /\ sleepCalls \in {fetchCalls - 1, fetchCalls}
    /\ watch => sleepCalls = handledCalls
    /\ ~watch => (sleepCalls = 0 /\ fetchCalls <= 1)
    /\ (~watch /\ handledCalls = 1) => (fetchCalls = 1 /\ displayCalls = 1)

(***************************************************************************)
(* client.py: a session that constructs the client, logs in and calls it.  *)
(***************************************************************************)
\* the cookie string of the session
SessionInputs == { <<"a", "=", "1">> }

\* cookies.json as the session finds it: absent, or a document saved earlier
SessionFiles ==
    { AbsentFile, TextFile(JsonDump(<< <<<<"o", "l", "d">>, <<"0">>>> >>)) }

\* the 200 bodies of the session: a document and a body that is not JSON
SessionBodies == {JsonBody(EmptyDoc), TextBody}

\* a call of the session ends
SessionReturns == ReturnsWith(SessionBodies, SessionBodies)

\* the script turns from the constructor and login to the calls of the client
UseClient ==
    /\ pc = "store"
    /\ client = "ready"
    /\ pc' = "api"
    /\ UNCHANGED <<cliVars, configVars, hashVars, storeVars>>
    /\ UNCHANGED <<call, arg, request, sessionCalls, attempts, retriesLeft,
                   retryableSeen, errorsSeen, lastStatus, transport, result>>

InitSession ==
    /\ pc = "store"
    /\ CliIdle
    /\ ClientIdle
    /\ HashIdle
    /\ cookie_string \in SessionInputs
    /\ cookies_file \in SessionFiles
    /\ cookies = <<>>
    /\ client = "none"
    /\ storeCall = NoStoreCall

NextSession ==
    \/ CreateClient
    \/ Login
    \/ UseClient
    \/ CallFetchLeaderboard
    \/ CallIsAuthenticated
    \/ CallGetUserInfo
    \/ RetryOnStatus
    \/ RetryOnError
    \/ SessionReturns

SpecSession == InitSession /\ [][NextSession]_vars

\* a step of _load_cookies or _save_cookies: the constructor, or login
StoreStep == pc = "store" /\ pc' = "store"

\* C27: cookies.json is written only by login: the constructor reads it and
\* leaves it as it is, and no step of fetch_leaderboard, is_authenticated or
\* get_user_info (issuing the request, a retry, the final response, a 401, a
\* network error) changes the persisted document.
C27_FileWrittenOnlyByLogin ==
    [][ /\ cookies_file' # cookies_file => (StoreStep /\ storeCall'.op = "login")
        /\ pc = "api" => cookies_file' = cookies_file ]_vars

\* a call ended in a session whose login could not save: the jar holds the
\* cookie and cookies.json does not
C27_Witness ==
    /\ Finished
    /\ pc = "api"
    /\ errorsSeen > 0
    /\ storeCall.op = "login"
    /\ storeCall.save # "ok"
    /\ cookies # <<>>
    /\ ~Persisted(cookies_file, cookies)

(***************************************************************************)
(* cli.py: the retained fingerprint and the snapshot on screen.            *)
(***************************************************************************)
\* C28: once a snapshot was displayed, previous_hash is the fingerprint of the
\* data last passed to display_leaderboard_data (upstream data or the sample
\* data), and previous_hash changes only in a step that displays the data it
\* is then the fingerprint of.
C28_HashOfDisplayed ==
    [][ /\ displayed' # None =>
              previous_hash' = Some(compute_data_hash(displayed'[1]))
        /\ previous_hash' # previous_hash =>
              /\ displayCalls' = displayCalls + 1
              /\ displayed' = lastData' ]_vars

\* the sample data replaced upstream data on screen after a failed fetch
C28_Witness ==
    /\ displayCalls >= 2
    /\ lastFailed
    /\ displayed = Some(SAMPLE_DATA)
    /\ previous_hash = Some(compute_data_hash(SAMPLE_DATA))

(***************************************************************************)
(* cli.py: the interval of the watch loop and a failed configuration.      *)
(***************************************************************************)
\* C29 as stated: whenever the watch loop calls time.sleep, the interval is a
\* positive integer, whichever source supplied it: a zero or negative interval
\* never reaches the sleep step.
C29_IntervalPositive ==
    sleepCalls > 0 => interval > 0

\* C30 as stated: when get_config() raised ConfigError the command runs with
\* period all_time and interval 30 unless the options gave them, and still
\* fetches and displays a leaderboard (the sample data, no client being
\* available) without raising.
C30_ConfigErrorStillDisplays ==
    ~configLoaded =>
        /\ pc # "crashed"
        /\ handledCalls > 0 => displayed = Some(SAMPLE_DATA)

====
